---- MODULE Spec2Model ----
(***************************************************************************)
(* cassandra-proto: the query-parameter block (QueryParams, its builder,   *)
(* its encoder into_cbytes and its decoder from_cursor) and the            *)
(* non-blocking frame decoder parse_frame_async.                           *)
(*                                                                         *)
(* Bytes are naturals 0..255, byte strings are sequences of bytes, an     *)
(* Option<T> is the empty sequence (None) or a one-element sequence       *)
(* (Some(v)).                                                              *)
(***************************************************************************)
EXTENDS Integers, Sequences, FiniteSets, TLC

VARIABLES
  builder,    \* QueryParamsBuilder under construction
  ops,        \* the builder calls made so far, in order
  built,      \* Option<QueryParams>: the result of finalize
  params,     \* the QueryParams handed to into_cbytes
  wire,       \* the byte buffer from_cursor reads
  cur,        \* position of the Cursor<&[u8]> over wire
  dpc,        \* position of the codec run: "new", "encoded", "values", "rest", "done"
  acc,        \* from_cursor's locals
  last,       \* the value read by the latest loop iteration of from_cursor
  decoded,    \* Option<Result<QueryParams, Error>> returned by from_cursor
  frame,      \* the bytes of the frame the peer sends
  source,     \* bytes the caller's cursor holds so far
  position,   \* read position of the caller's cursor
  lastcall,   \* Option: the call of parse_frame_async made since the latest bytes
              \* arrived: the cursor's position before it and its result
  bytewise,   \* the bytes have so far arrived one at a time, one call after each
  final       \* Option: the result of convert_frame_into_result

vars == <<builder, ops, built, params, wire, cur, dpc, acc, last, decoded,
          frame, source, position, lastcall, bytewise, final>>

builderVars == <<builder, ops, built>>
codecVars == <<params, wire, cur, dpc, acc, last, decoded>>
frameVars == <<frame, source, position, lastcall, bytewise, final>>

----------------------------------------------------------------------------
(* Option and byte helpers *)

None == <<>>

Some(v) == <<v>>

is_some(o) == o /= <<>>

unwrap(o) == o[1]

Min(a, b) == IF a < b THEN a ELSE b

RECURSIVE Concat(_)
Concat(seqs) == IF seqs = <<>> THEN <<>> ELSE Head(seqs) \o Concat(Tail(seqs))

\* n as a big-endian unsigned integer of width bytes
RECURSIVE BigEndian(_, _)
BigEndian(n, width) ==
  IF width = 0 THEN <<>> ELSE Append(BigEndian(n \div 256, width - 1), n % 256)

\* the unsigned integer a big-endian byte string holds
RECURSIVE Unsigned(_)
Unsigned(bytes) ==
  IF bytes = <<>> THEN 0
  ELSE 256 * Unsigned(SubSeq(bytes, 1, Len(bytes) - 1)) + bytes[Len(bytes)]

Complement(bytes) == [i \in 1..Len(bytes) |-> 255 - bytes[i]]

\* the signed integer a big-endian two's complement byte string of up to 4 bytes holds
Signed(bytes) ==
  IF bytes[1] >= 128 THEN -Unsigned(Complement(bytes)) - 1 ELSE Unsigned(bytes)

\* n as a big-endian two's complement integer of width bytes
TwosComplement(n, width) ==
  IF n >= 0 THEN BigEndian(n, width) ELSE Complement(BigEndian(-n - 1, width))

to_short(n) == TwosComplement(n, 2)

to_int(n) == TwosComplement(n, 4)

\* an i64 is held as its four 16-bit limbs, most significant first
I64(n) == [i \in 1..4 |-> Unsigned(SubSeq(TwosComplement(n, 8), 2 * i - 1, 2 * i))]

to_bigint(limbs) == Concat([i \in 1..4 |-> BigEndian(limbs[i], 2)])

i64_from_bytes(bytes) == [i \in 1..4 |-> Unsigned(SubSeq(bytes, 2 * i - 1, 2 * i))]

\* bit is a power of two: whether byte has it set
HasBit(byte, bit) == (byte \div bit) % 2 = 1

RECURSIVE BitOrFrom(_, _, _)
BitOrFrom(a, b, bit) ==
  IF bit > 128 THEN 0
  ELSE (IF HasBit(a, bit) \/ HasBit(b, bit) THEN bit ELSE 0) + BitOrFrom(a, b, 2 * bit)

BitOr(a, b) == BitOrFrom(a, b, 1)

\* every ordering of the elements of a finite set
RECURSIVE Orders(_)
Orders(S) ==
  IF S = {} THEN {<<>>}
  ELSE UNION {{<<x>> \o o : o \in Orders(S \ {x})} : x \in S}

----------------------------------------------------------------------------
(* QueryFlags *)

QueryFlags ==
  {"Value", "SkipMetadata", "PageSize", "WithPagingState",
   "WithSerialConsistency", "WithDefaultTimestamp", "WithNamesForValues"}

as_byte(flag) ==
  CASE flag = "Value" -> 1
    [] flag = "SkipMetadata" -> 2
    [] flag = "PageSize" -> 4
    [] flag = "WithPagingState" -> 8
    [] flag = "WithSerialConsistency" -> 16
    [] flag = "WithDefaultTimestamp" -> 32
    [] flag = "WithNamesForValues" -> 64

has_flag(byte, flag) == HasBit(byte, as_byte(flag))

RECURSIVE flags_fold(_, _)
flags_fold(accum, flags) ==
  IF flags = <<>> THEN accum
  ELSE flags_fold(BitOr(accum, as_byte(Head(flags))), Tail(flags))

\* QueryParams::flags_as_byte
flags_as_byte(p) == flags_fold(0, p.flags)

parse_query_flags(byte) ==
  Concat(<<IF has_flag(byte, "Value") THEN <<"Value">> ELSE <<>>,
           IF has_flag(byte, "SkipMetadata") THEN <<"SkipMetadata">> ELSE <<>>,
           IF has_flag(byte, "PageSize") THEN <<"PageSize">> ELSE <<>>,
           IF has_flag(byte, "WithPagingState") THEN <<"WithPagingState">> ELSE <<>>,
           IF has_flag(byte, "WithSerialConsistency")
             THEN <<"WithSerialConsistency">> ELSE <<>>,
           IF has_flag(byte, "WithDefaultTimestamp")
             THEN <<"WithDefaultTimestamp">> ELSE <<>>,
           IF has_flag(byte, "WithNamesForValues")
             THEN <<"WithNamesForValues">> ELSE <<>> >>)

----------------------------------------------------------------------------
(* Value and QueryValues *)

new_normal(bytes) == [value_type |-> "Normal", len |-> Len(bytes), body |-> bytes]

new_null == [value_type |-> "Null", len |-> 0, body |-> <<>>]

new_not_set == [value_type |-> "NotSet", len |-> 0, body |-> <<>>]

SimpleValues(vec) == [shape |-> "SimpleValues", vec |-> vec, map |-> <<>>]

NamedValues(map) == [shape |-> "NamedValues", vec |-> <<>>, map |-> map]

\* QueryValues::with_names
values_with_names(values) == values.shape = "NamedValues"

\* QueryValues::len
values_len(values) ==
  IF values.shape = "SimpleValues" THEN Len(values.vec)
  ELSE Cardinality(DOMAIN values.map)

\* Value::into_cbytes
value_into_cbytes(value) ==
  CASE value.value_type = "Normal" -> to_int(value.len) \o value.body
    [] value.value_type = "Null" -> to_int(-1)
    [] value.value_type = "NotSet" -> to_int(-2)

\* CString::into_cbytes
cstring_into_cbytes(string) == to_short(Len(string)) \o string

\* CBytes: the bytes, or none for a null byte string
CBytes(bytes) == [bytes |-> Some(bytes)]

CBytesNull == [bytes |-> None]

\* CBytes::into_cbytes
cbytes_into_cbytes(c) ==
  IF is_some(c.bytes) THEN to_int(Len(unwrap(c.bytes))) \o unwrap(c.bytes) ELSE to_int(-1)

\* QueryValues::into_cbytes; order is the order the HashMap yields the names in
values_into_cbytes(values, order) ==
  IF values.shape = "SimpleValues"
  THEN Concat([i \in 1..Len(values.vec) |-> value_into_cbytes(values.vec[i])])
  ELSE Concat([i \in 1..Len(order) |->
                 cstring_into_cbytes(order[i]) \o value_into_cbytes(values.map[order[i]])])

----------------------------------------------------------------------------
(* Inputs *)

\* longest positional value list, and the largest count a crafted block declares
MaxValues == 2

Consistencies == {1, 4}

SerialConsistency == 8

PageSizes == {300}

PagingStates == {CBytes(<<5>>)}

Timestamps == {I64(-2)}

Names == {<<97>>, <<98>>}

Payloads == {<<120>>, <<1, 2>>}

Values == {new_normal(b) : b \in Payloads} \cup {new_null, new_not_set}

RECURSIVE SeqsUpTo(_, _)
SeqsUpTo(S, n) ==
  IF n = 0 THEN {<<>>}
  ELSE SeqsUpTo(S, n - 1) \cup
       {Append(s, x) : s \in {t \in SeqsUpTo(S, n - 1) : Len(t) = n - 1}, x \in S}

ValueLists == {SimpleValues(vec) : vec \in SeqsUpTo(Values, MaxValues)}

ValueMaps ==
  {NamedValues([n \in D |-> new_normal(<<120>>)]) : D \in (SUBSET Names) \ {{}}}
  \cup {NamedValues([n \in Names |-> IF n = <<97>> THEN new_null ELSE new_not_set])}

----------------------------------------------------------------------------
(* QueryParamsBuilder *)

\* QueryParamsBuilder::new: Default::default()
new ==
  [consistency |-> 1, flags |-> None, values |-> None, with_names |-> None,
   page_size |-> None, paging_state |-> None, serial_consistency |-> None,
   timestamp |-> None]

\* self.flags.or(Some(vec![])).map(|mut flags| { flags.push(..); flags })
flags_push(flags, pushed) == Some((IF is_some(flags) THEN unwrap(flags) ELSE <<>>) \o pushed)

consistency(self, c) == [self EXCEPT !.consistency = c]

flags(self, f) == [self EXCEPT !.flags = Some(f)]

values(self, v) ==
  [self EXCEPT !.with_names = Some(values_with_names(v)),
               !.values = Some(v),
               !.flags = flags_push(self.flags,
                          IF values_with_names(v) THEN <<"Value", "WithNamesForValues">>
                          ELSE <<"Value">>)]

with_names(self, w) == [self EXCEPT !.with_names = Some(w)]

page_size(self, size) ==
  [self EXCEPT !.page_size = Some(size),
               !.flags = flags_push(self.flags, <<"PageSize">>)]

paging_state(self, state) ==
  [self EXCEPT !.paging_state = Some(state),
               !.flags = flags_push(self.flags, <<"WithPagingState">>)]

serial_consistency(self, c) == [self EXCEPT !.serial_consistency = Some(c)]

timestamp(self, t) == [self EXCEPT !.timestamp = Some(t)]

finalize(self) ==
  [consistency |-> self.consistency,
   flags |-> IF is_some(self.flags) THEN unwrap(self.flags) ELSE <<>>,
   values |-> self.values,
   with_names |-> self.with_names,
   page_size |-> self.page_size,
   paging_state |-> self.paging_state,
   serial_consistency |-> self.serial_consistency,
   timestamp |-> self.timestamp]

\* the builder calls the model makes: setter and argument
BuilderCalls ==
  {<<"consistency", c>> : c \in {4}}
  \cup {<<"flags", f>> : f \in {<<>>, <<"SkipMetadata">>}}
  \cup {<<"values", v>> : v \in {SimpleValues(<<new_normal(<<120>>)>>),
                                 NamedValues([n \in {<<97>>} |-> new_null])}}
  \cup {<<"with_names", w>> : w \in BOOLEAN}
  \cup {<<"page_size", s>> : s \in PageSizes}
  \cup {<<"paging_state", s>> : s \in PagingStates}
  \cup {<<"serial_consistency", c>> : c \in {SerialConsistency}}
  \cup {<<"timestamp", t>> : t \in Timestamps}

\* one builder call applied to a builder
call(self, op) ==
  CASE op[1] = "consistency" -> consistency(self, op[2])
    [] op[1] = "flags" -> flags(self, op[2])
    [] op[1] = "values" -> values(self, op[2])
    [] op[1] = "with_names" -> with_names(self, op[2])
    [] op[1] = "page_size" -> page_size(self, op[2])
    [] op[1] = "paging_state" -> paging_state(self, op[2])
    [] op[1] = "serial_consistency" -> serial_consistency(self, op[2])
    [] op[1] = "timestamp" -> timestamp(self, op[2])

\* most builder calls before finalize
MaxCalls == 3

BuilderInit ==
  /\ builder = new
  /\ ops = <<>>
  /\ built = None

BuilderCall ==
  /\ built = None
  /\ Len(ops) < MaxCalls
  /\ \E op \in BuilderCalls :
       /\ builder' = call(builder, op)
       /\ ops' = Append(ops, op)
  /\ UNCHANGED built
  /\ UNCHANGED <<codecVars, frameVars>>

BuilderFinalize ==
  /\ built = None
  /\ built' = Some(finalize(builder))
  /\ UNCHANGED <<builder, ops>>
  /\ UNCHANGED <<codecVars, frameVars>>

----------------------------------------------------------------------------
(* QueryParams: into_cbytes *)

\* Consistency::into_cbytes: the level's code as a short
consistency_into_cbytes(c) == to_short(c)

\* Consistency::from: the level a code names, Unknown (99) for any other code
consistency_from(n) == IF n \in 0..10 THEN n ELSE 99

\* the value count as into_cbytes writes it
count_into_cbytes(n) == to_short(n)

\* the flags byte into_cbytes writes
written_flags(self) == flags_as_byte(self)

\* IntoBytes for QueryParams; order is the order the HashMap yields the names in
into_cbytes(self, order) ==
  Concat(<<
    consistency_into_cbytes(self.consistency),
    <<written_flags(self)>>,
    IF has_flag(flags_as_byte(self), "Value") /\ is_some(self.values)
    THEN count_into_cbytes(values_len(unwrap(self.values)))
         \o values_into_cbytes(unwrap(self.values), order)
    ELSE <<>>,
    IF has_flag(flags_as_byte(self), "PageSize") /\ is_some(self.page_size)
    THEN to_int(unwrap(self.page_size)) ELSE <<>>,
    IF has_flag(flags_as_byte(self), "WithPagingState") /\ is_some(self.paging_state)
    THEN cbytes_into_cbytes(unwrap(self.paging_state)) ELSE <<>>,
    IF has_flag(flags_as_byte(self), "WithSerialConsistency")
       /\ is_some(self.serial_consistency)
    THEN consistency_into_cbytes(unwrap(self.serial_consistency)) ELSE <<>>,
    IF has_flag(flags_as_byte(self), "WithDefaultTimestamp") /\ is_some(self.timestamp)
    THEN to_bigint(unwrap(self.timestamp)) ELSE <<>> >>)

----------------------------------------------------------------------------
(* QueryParams: from_cursor *)

\* a read's result: ok, the value read, the cursor position after it, the error
Read(value, at) == [ok |-> TRUE, value |-> value, at |-> at, error |-> ""]

Failed(error, at) == [ok |-> FALSE, value |-> <<>>, at |-> at, error |-> error]

\* cursor_next_value: the next n bytes, or an I/O error when fewer remain
cursor_next_value(buf, at, n) ==
  IF at + n <= Len(buf) THEN Read(SubSeq(buf, at + 1, at + n), at + n)
  ELSE Failed("io", at)

\* cursor.read_u8
read_u8(buf, at) ==
  LET r == cursor_next_value(buf, at, 1)
  IN IF r.ok THEN Read(r.value[1], r.at) ELSE r

\* cursor.read_i32::<BigEndian>, CIntShort::from_cursor
read_signed(buf, at, width) ==
  LET r == cursor_next_value(buf, at, width)
  IN IF r.ok THEN Read(Signed(r.value), r.at) ELSE r

\* cursor.read_i64::<BigEndian>
read_i64(buf, at) ==
  LET r == cursor_next_value(buf, at, 8)
  IN IF r.ok THEN Read(i64_from_bytes(r.value), r.at) ELSE r

\* Consistency::from_cursor
consistency_from_cursor(buf, at) ==
  LET r == read_signed(buf, at, 2)
  IN IF r.ok THEN Read(consistency_from(r.value), r.at) ELSE r

\* CString::from_cursor: a short length, then that many bytes
cstring_from_cursor(buf, at) ==
  LET n == cursor_next_value(buf, at, 2)
  IN IF n.ok THEN cursor_next_value(buf, n.at, Unsigned(n.value)) ELSE n

\* CBytes::from_cursor: an int length, then that many bytes; null when negative
cbytes_from_cursor(buf, at) ==
  LET n == read_signed(buf, at, 4)
  IN IF ~n.ok THEN n
     ELSE IF n.value < 0 THEN Read(CBytesNull, n.at)
     ELSE LET b == cursor_next_value(buf, n.at, n.value)
          IN IF b.ok THEN Read(CBytes(b.value), b.at) ELSE b

\* value_of_size with a length of zero taken for a Normal value
value_of_size_zero_normal(buf, at, value_size) ==
  IF value_size >= 0
  THEN LET body == cursor_next_value(buf, at, value_size)
       IN IF body.ok THEN Read(new_normal(body.value), body.at) ELSE body
  ELSE IF value_size = -1 THEN Read(new_null, at)
  ELSE IF value_size = -2 THEN Read(new_not_set, at)
  ELSE Failed("Could not decode query values", at)

\* the value a length field of value_size announces (from_cursor, both loops)
value_of_size(buf, at, value_size) ==
  IF value_size > 0
  THEN LET body == cursor_next_value(buf, at, value_size)
       IN IF body.ok THEN Read(new_normal(body.value), body.at) ELSE body
  ELSE IF value_size = -1 THEN Read(new_null, at)
  ELSE IF value_size = -2 THEN Read(new_not_set, at)
  ELSE Failed("Could not decode query values", at)

\* the count field from_cursor reads
read_count(buf, at) == read_u8(buf, at)

\* whether the loop over the values runs its iteration i: for _ in 1..number_of_values
loop_continues(i, number_of_values) == i < number_of_values

Ok(p) == [ok |-> TRUE, params |-> Some(p), error |-> ""]

Err(error) == [ok |-> FALSE, params |-> None, error |-> error]

NoAcc ==
  [consistency |-> 0, flags_byte |-> 0, number_of_values |-> 0, i |-> 0,
   vec |-> <<>>, map |-> <<>>]

\* from_cursor up to the loop over the values
FromCursorHeader ==
  /\ dpc = "encoded"
  /\ LET c == consistency_from_cursor(wire, cur)
         f == read_u8(wire, c.at)
         n == read_count(wire, f.at)
     IN IF ~c.ok \/ ~f.ok \/ (has_flag(f.value, "Value") /\ ~n.ok)
        THEN /\ decoded' = Some(Err("io"))
             /\ dpc' = "done"
             /\ UNCHANGED <<cur, acc>>
        ELSE /\ acc' = [consistency |-> c.value, flags_byte |-> f.value,
                        number_of_values |->
                          IF has_flag(f.value, "Value") THEN n.value ELSE 0,
                        i |-> 1, vec |-> <<>>, map |-> <<>>]
             /\ cur' = IF has_flag(f.value, "Value") THEN n.at ELSE f.at
             /\ dpc' = IF has_flag(f.value, "Value") THEN "values" ELSE "rest"
             /\ UNCHANGED decoded
  /\ UNCHANGED <<params, wire, last>>
  /\ UNCHANGED <<builderVars, frameVars>>

\* one iteration of the loop over the values
FromCursorValue ==
  /\ dpc = "values"
  /\ loop_continues(acc.i, acc.number_of_values)
  /\ LET named == has_flag(acc.flags_byte, "WithNamesForValues")
         name == IF named THEN cstring_from_cursor(wire, cur) ELSE Read(<<>>, cur)
         size == read_signed(wire, name.at, 4)
         value == value_of_size(wire, size.at, size.value)
     IN IF ~name.ok \/ ~size.ok
        THEN /\ decoded' = Some(Err("io"))
             /\ dpc' = "done"
             /\ UNCHANGED <<cur, acc, last>>
        ELSE /\ last' = Some([size |-> size.value, at |-> size.at, named |-> named,
                              name |-> name.value, read |-> value])
             /\ IF value.ok
                THEN /\ acc' = [acc EXCEPT
                                  !.i = @ + 1,
                                  !.vec = IF named THEN @ ELSE Append(@, value.value),
                                  !.map = IF named
                                          THEN [k \in DOMAIN @ \cup {name.value} |->
                                                  IF k = name.value THEN value.value
                                                  ELSE @[k]]
                                          ELSE @]
                     /\ cur' = value.at
                     /\ UNCHANGED <<dpc, decoded>>
                ELSE /\ decoded' = Some(Err(value.error))
                     /\ dpc' = "done"
                     /\ UNCHANGED <<cur, acc>>
  /\ UNCHANGED <<params, wire>>
  /\ UNCHANGED <<builderVars, frameVars>>

\* from_cursor after the loop: the remaining optional fields and the result
FromCursorRest ==
  /\ \/ dpc = "rest"
     \/ dpc = "values" /\ ~loop_continues(acc.i, acc.number_of_values)
  /\ LET fb == acc.flags_byte
         vals == IF ~has_flag(fb, "Value") THEN None
                 ELSE IF has_flag(fb, "WithNamesForValues")
                      THEN Some(NamedValues(acc.map))
                      ELSE Some(SimpleValues(acc.vec))
         ps == IF has_flag(fb, "PageSize") THEN read_signed(wire, cur, 4)
               ELSE Read(<<>>, cur)
         pg == IF ~ps.ok THEN ps
               ELSE IF has_flag(fb, "WithPagingState") THEN cbytes_from_cursor(wire, ps.at)
               ELSE Read(<<>>, ps.at)
         sc == IF ~pg.ok THEN pg
               ELSE IF has_flag(fb, "WithSerialConsistency")
                    THEN consistency_from_cursor(wire, pg.at)
               ELSE Read(<<>>, pg.at)
         ts == IF ~sc.ok THEN sc
               ELSE IF has_flag(fb, "WithDefaultTimestamp") THEN read_i64(wire, sc.at)
               ELSE Read(<<>>, sc.at)
     IN IF ~ts.ok
        THEN /\ decoded' = Some(Err("io"))
             /\ UNCHANGED cur
        ELSE /\ decoded' = Some(Ok(
                  [consistency |-> acc.consistency,
                   flags |-> parse_query_flags(fb),
                   with_names |-> Some(has_flag(fb, "WithNamesForValues")),
                   values |-> vals,
                   page_size |-> IF has_flag(fb, "PageSize") THEN Some(ps.value) ELSE None,
                   paging_state |->
                     IF has_flag(fb, "WithPagingState") THEN Some(pg.value) ELSE None,
                   serial_consistency |->
                     IF has_flag(fb, "WithSerialConsistency") THEN Some(sc.value) ELSE None,
                   timestamp |->
                     IF has_flag(fb, "WithDefaultTimestamp") THEN Some(ts.value) ELSE None]))
             /\ cur' = ts.at
  /\ dpc' = "done"
  /\ UNCHANGED <<params, wire, acc, last>>
  /\ UNCHANGED <<builderVars, frameVars>>

\* into_cbytes of the QueryParams at hand
IntoCbytes ==
  /\ dpc = "new"
  /\ \E order \in Orders(IF is_some(unwrap(params).values)
                         THEN DOMAIN unwrap(unwrap(params).values).map ELSE {}) :
       wire' = into_cbytes(unwrap(params), order)
  /\ dpc' = "encoded"
  /\ UNCHANGED <<params, cur, acc, last, decoded>>
  /\ UNCHANGED <<builderVars, frameVars>>

----------------------------------------------------------------------------
(* The codec's inputs and specification *)

\* the flags a QueryParams with these fields populated carries when they agree
implied_flags(p) ==
  Concat(<<IF is_some(p.values) THEN <<"Value">> ELSE <<>>,
           IF is_some(p.values) /\ values_with_names(unwrap(p.values))
             THEN <<"WithNamesForValues">> ELSE <<>>,
           IF is_some(p.page_size) THEN <<"PageSize">> ELSE <<>>,
           IF is_some(p.paging_state) THEN <<"WithPagingState">> ELSE <<>>,
           IF is_some(p.serial_consistency) THEN <<"WithSerialConsistency">> ELSE <<>>,
           IF is_some(p.timestamp) THEN <<"WithDefaultTimestamp">> ELSE <<>> >>)

\* the byte of the governed flags whose fields are populated
implied_byte(p) == flags_fold(0, implied_flags(p))

Valid(p) == flags_as_byte(p) = implied_byte(p)

Option(S) == {None} \cup {Some(x) : x \in S}

Fields ==
  [consistency : Consistencies,
   values : Option(ValueLists \cup ValueMaps),
   page_size : Option(PageSizes),
   paging_state : Option(PagingStates),
   serial_consistency : Option({SerialConsistency}),
   timestamp : Option(Timestamps)]

\* stored flags lists: agreeing with the fields, empty, with an ungoverned flag,
\* with every flag, and with the first implied flag missing
FlagLists(f) ==
  {implied_flags(f), <<>>, implied_flags(f) \o <<"SkipMetadata">>,
   <<"Value", "PageSize", "WithPagingState", "WithSerialConsistency",
     "WithDefaultTimestamp">>,
   IF implied_flags(f) = <<>> THEN <<>> ELSE Tail(implied_flags(f))}

WithFlags(f, fl) ==
  [consistency |-> f.consistency, flags |-> fl,
   with_names |-> IF is_some(f.values) THEN Some(values_with_names(unwrap(f.values)))
                  ELSE None,
   values |-> f.values, page_size |-> f.page_size, paging_state |-> f.paging_state,
   serial_consistency |-> f.serial_consistency, timestamp |-> f.timestamp]

ParamsInputs == UNION {{WithFlags(f, fl) : fl \in FlagLists(f)} : f \in Fields}

\* most values of a parameter block written by hand
MaxCount == 3

\* a value on the wire: its length field and the bytes after it
CraftedItems ==
  {[size |-> n, payload |-> <<>>] : n \in {-3, -2, -1, 0}}
  \cup {[size |-> 1, payload |-> <<120>>], [size |-> 2, payload |-> <<1, 2>>],
        [size |-> 2, payload |-> <<1>>]}

crafted_values(items, named) ==
  Concat([i \in 1..Len(items) |->
            (IF named THEN cstring_into_cbytes(<<96 + i>>) ELSE <<>>)
            \o to_int(items[i].size) \o items[i].payload])

\* parameter blocks in the protocol's layout: a one-byte count, then that many values
CraftedBlocks ==
  {consistency_into_cbytes(1)
   \o <<1 + (IF named THEN 64 ELSE 0) + (IF paged THEN 4 ELSE 0)>>
   \o <<Len(items)>> \o crafted_values(items, named)
   \o (IF paged THEN to_int(300) ELSE <<>>) :
     items \in SeqsUpTo(CraftedItems, MaxCount), named \in BOOLEAN, paged \in BOOLEAN}

FrameIdle ==
  /\ frame = <<>>
  /\ source = <<>>
  /\ position = 0
  /\ lastcall = None
  /\ bytewise = TRUE
  /\ final = None

CodecIdle ==
  /\ params = None
  /\ wire = <<>>
  /\ cur = 0
  /\ dpc = "idle"
  /\ acc = NoAcc
  /\ last = None
  /\ decoded = None

CodecInit ==
  /\ \/ /\ params \in {Some(p) : p \in ParamsInputs}
        /\ wire = <<>>
        /\ dpc = "new"
     \/ /\ params = None
        /\ wire \in CraftedBlocks
        /\ dpc = "encoded"
  /\ cur = 0
  /\ acc = NoAcc
  /\ last = None
  /\ decoded = None

InitCodec == CodecInit /\ BuilderInit /\ FrameIdle

NextCodec ==
  \/ IntoCbytes
  \/ FromCursorHeader
  \/ FromCursorValue
  \/ FromCursorRest

SpecCodec == InitCodec /\ [][NextCodec]_vars

InitBuilder == BuilderInit /\ CodecIdle /\ FrameIdle

NextBuilder ==
  \/ BuilderCall
  \/ BuilderFinalize

SpecBuilder == InitBuilder /\ [][NextBuilder]_vars

----------------------------------------------------------------------------
(* Frame: header layout, flags, collaborators of parse_frame_async *)

VERSION_BYTE_LENGTH == 1

FLAG_BYTE_LENGTH == 1

OPCODE_BYTE_LENGTH == 1

STREAM_LEN == 2

LENGTH_LEN == 4

UUID_LEN == 16

\* Opcode::Error
OpcodeError == 0

\* Flag::get_collection: the flags a header's flag byte sets
get_collection(byte) ==
  {f \in {"Compression", "Tracing", "CustomPayload", "Warning"} :
     HasBit(byte, CASE f = "Compression" -> 1
                    [] f = "Tracing" -> 2
                    [] f = "CustomPayload" -> 4
                    [] f = "Warning" -> 8)}

\* from_bytes, from_u16_bytes: a big-endian unsigned integer; one beyond the
\* model's integers counts as the largest of them, it is only compared with
\* buffer lengths
from_bytes(bytes) ==
  IF Len(bytes) = 4 /\ bytes[1] >= 128 THEN 2147483647 ELSE Unsigned(bytes)

\* the first byte of a body the model's compressor has compressed
Marker == 67

\* Compressor::decode: the compressor at hand strips the marker it prefixed and
\* fails on bytes that do not start with it
decode(bytes) ==
  IF bytes /= <<>> /\ bytes[1] = Marker THEN Read(Tail(bytes), 0)
  ELSE Failed("decompression", 0)

\* decode_timeuuid(..).ok(): the identifier of 16 bytes
decode_timeuuid(bytes) == IF Len(bytes) = UUID_LEN THEN Some(bytes) ELSE None

\* CStringList::from_cursor followed by into_plain: a short count, then that many
\* strings
RECURSIVE cstrings_from_cursor(_, _, _, _)
cstrings_from_cursor(buf, at, n, list) ==
  IF n = 0 THEN Read(list, at)
  ELSE LET str == cstring_from_cursor(buf, at)
       IN IF str.ok THEN cstrings_from_cursor(buf, str.at, n - 1, Append(list, str.value))
          ELSE str

cstringlist_from_cursor(buf, at) ==
  LET n == cursor_next_value(buf, at, 2)
  IN IF n.ok THEN cstrings_from_cursor(buf, n.at, Unsigned(n.value), <<>>) ELSE n

\* Frame::get_body of an Error frame: the error code, then the message
error_from_cursor(body) ==
  LET code == read_signed(body, 0, 4)
      message == cstring_from_cursor(body, code.at)
  IN IF ~code.ok THEN code
     ELSE IF ~message.ok THEN message
     ELSE Read([error_code |-> code.value, message |-> message.value], message.at)

----------------------------------------------------------------------------
(* parse_frame_async *)

\* Cursor::read into a buffer of n bytes: as many bytes as are there, at most n
read(src, pos, n) ==
  LET count == Min(n, Len(src) - pos)
  IN [count |-> count, bytes |-> SubSeq(src, pos + 1, pos + count), pos |-> pos + count]

\* proceed_if_filled!: whether the read filled the buffer, so that parsing goes on
proceed_if_filled(res, expected_len) == ~(expected_len > res)

\* results of parse_frame_async: Ok(None), Ok(Some(frame)), Err(error)
OkNone == [kind |-> "None", frame |-> None, error |-> ""]

OkSome(f) == [kind |-> "Frame", frame |-> Some(f), error |-> ""]

ParseErr(error) == [kind |-> "Err", frame |-> None, error |-> error]

\* reads_tracing with the tracing id read whatever the flags
reads_tracing_always(flagset) == TRUE

\* whether a section of the full body is read
reads_tracing(flagset) == "Tracing" \in flagset

reads_warnings(flagset) == "Warning" \in flagset

\* the body-cursor part of parse_frame_async: tracing id, warnings, body
parse_full_body(header, full_body) ==
  LET tracing == IF reads_tracing(header.flags)
                 THEN cursor_next_value(full_body, 0, UUID_LEN)
                 ELSE Read(<<>>, 0)
      warnings == IF reads_warnings(header.flags)
                  THEN cstringlist_from_cursor(full_body, tracing.at)
                  ELSE Read(<<>>, tracing.at)
  IN IF ~tracing.ok THEN ParseErr("io")
     ELSE IF ~warnings.ok THEN ParseErr("io")
     ELSE OkSome([version |-> header.version,
                  flags |-> header.flags,
                  opcode |-> header.opcode,
                  stream |-> header.stream,
                  body |-> SubSeq(full_body, warnings.at + 1, Len(full_body)),
                  tracing_id |-> IF reads_tracing(header.flags)
                                 THEN decode_timeuuid(tracing.value) ELSE None,
                  warnings |-> warnings.value])

\* parse_frame_async on a cursor over src at pos: the result and the cursor's
\* position after the call. Version::from and Opcode::from are taken as total:
\* a frame keeps the version and opcode bytes it was read with.
parse_frame_async(src, pos) ==
  LET version_bytes == read(src, pos, VERSION_BYTE_LENGTH)
      flag_bytes == read(src, version_bytes.pos, FLAG_BYTE_LENGTH)
      stream_bytes == read(src, flag_bytes.pos, STREAM_LEN)
      opcode_bytes == read(src, stream_bytes.pos, OPCODE_BYTE_LENGTH)
      length_bytes == read(src, opcode_bytes.pos, LENGTH_LEN)
      header == [version |-> version_bytes.bytes[1],
                 flags |-> get_collection(flag_bytes.bytes[1]),
                 stream |-> from_bytes(stream_bytes.bytes),
                 opcode |-> opcode_bytes.bytes[1]]
      length == from_bytes(length_bytes.bytes)
      body_bytes == read(src, length_bytes.pos, length)
      full_body == IF "Compression" \in header.flags
                   THEN decode(body_bytes.bytes)
                   ELSE Read(body_bytes.bytes, 0)
  IN IF ~proceed_if_filled(version_bytes.count, VERSION_BYTE_LENGTH)
     THEN [result |-> OkNone, pos |-> version_bytes.pos]
     ELSE IF ~proceed_if_filled(flag_bytes.count, FLAG_BYTE_LENGTH)
     THEN [result |-> OkNone, pos |-> flag_bytes.pos]
     ELSE IF ~proceed_if_filled(stream_bytes.count, STREAM_LEN)
     THEN [result |-> OkNone, pos |-> stream_bytes.pos]
     ELSE IF ~proceed_if_filled(opcode_bytes.count, OPCODE_BYTE_LENGTH)
     THEN [result |-> OkNone, pos |-> opcode_bytes.pos]
     ELSE IF ~proceed_if_filled(length_bytes.count, LENGTH_LEN)
     THEN [result |-> OkNone, pos |-> length_bytes.pos]
     ELSE IF ~proceed_if_filled(body_bytes.count, length)
     THEN [result |-> OkNone, pos |-> body_bytes.pos]
     ELSE IF ~full_body.ok
     THEN [result |-> ParseErr(full_body.error), pos |-> body_bytes.pos]
     ELSE [result |-> parse_full_body(header, full_body.value), pos |-> body_bytes.pos]

\* results of convert_frame_into_result
ResultOk(f) == [ok |-> TRUE, frame |-> Some(f), server |-> None, error |-> ""]

ResultServer(err) == [ok |-> FALSE, frame |-> None, server |-> Some(err), error |-> "Server"]

ResultErr(error) == [ok |-> FALSE, frame |-> None, server |-> None, error |-> error]

\* convert_frame_into_result with every frame returned as it is
convert_frame_unclassified(f) == ResultOk(f)

convert_frame_into_result(f) ==
  IF f.opcode = OpcodeError
  THEN LET err == error_from_cursor(f.body)
       IN IF err.ok THEN ResultServer(err.value) ELSE ResultErr(err.error)
  ELSE ResultOk(f)

----------------------------------------------------------------------------
(* The frames the peer sends, and the caller of parse_frame_async *)

Versions == {132}

FlagBytes == {0, 1, 2, 8, 10, 11}

Streams == {258}

Opcodes == {OpcodeError, 8}

Uuid == [i \in 1..UUID_LEN |-> i]

WarningLists == {<<>>, <<0, 1, 0, 1, 119>>}

Rests == {<<7>>, <<0, 0, 0, 10, 0, 1, 101>>}

Bodies ==
  {<<>>} \cup
  {m \o t \o w \o r :
     m \in {<<>>, <<Marker>>}, t \in {<<>>, Uuid}, w \in WarningLists, r \in Rests}

FrameBytes(version, flag_byte, stream, opcode, body) ==
  <<version, flag_byte>> \o BigEndian(stream, STREAM_LEN) \o <<opcode>>
  \o BigEndian(Len(body), LENGTH_LEN) \o body

FrameInputs ==
  {FrameBytes(v, f, s, o, b) :
     v \in Versions, f \in FlagBytes, s \in Streams, o \in Opcodes, b \in Bodies}

FrameInit ==
  /\ frame \in FrameInputs
  /\ source = <<>>
  /\ position = 0
  /\ lastcall = None
  /\ bytewise = TRUE
  /\ final = None

\* whether parse_frame_async has been called since the latest bytes arrived
called_since_arrival == is_some(lastcall)

\* the next k bytes of the frame arrive in the buffer under the caller's cursor
Arrive ==
  /\ final = None
  /\ Len(source) < Len(frame)
  /\ \E k \in 1..(Len(frame) - Len(source)) :
       /\ source' = SubSeq(frame, 1, Len(source) + k)
       /\ bytewise' = (bytewise /\ k = 1 /\ (source = <<>> \/ called_since_arrival))
  /\ lastcall' = None
  /\ UNCHANGED <<frame, position, final>>
  /\ UNCHANGED <<builderVars, codecVars>>

\* the caller calls parse_frame_async with its cursor
ParseFrameAsync ==
  /\ final = None
  /\ LET r == parse_frame_async(source, position)
     IN /\ position' = r.pos
        /\ lastcall' = Some([before |-> position, result |-> r.result])
  /\ bytewise' = (bytewise /\ source /= <<>> /\ ~called_since_arrival)
  /\ UNCHANGED <<frame, source, final>>
  /\ UNCHANGED <<builderVars, codecVars>>

\* the caller hands the decoded frame to convert_frame_into_result
ConvertFrameIntoResult ==
  /\ final = None
  /\ is_some(lastcall)
  /\ unwrap(lastcall).result.kind = "Frame"
  /\ final' = Some(convert_frame_into_result(unwrap(unwrap(lastcall).result.frame)))
  /\ UNCHANGED <<frame, source, position, lastcall, bytewise>>
  /\ UNCHANGED <<builderVars, codecVars>>

InitFrame == FrameInit /\ BuilderInit /\ CodecIdle

NextFrame ==
  \/ Arrive
  \/ ParseFrameAsync
  \/ ConvertFrameIntoResult

SpecFrame == InitFrame /\ [][NextFrame]_vars

----------------------------------------------------------------------------
(* Claims about the builder *)

Governed ==
  {"Value", "PageSize", "WithPagingState", "WithSerialConsistency",
   "WithDefaultTimestamp"}

\* the optional field a governed flag stands for
governed_field(p, flag) ==
  CASE flag = "Value" -> p.values
    [] flag = "PageSize" -> p.page_size
    [] flag = "WithPagingState" -> p.paging_state
    [] flag = "WithSerialConsistency" -> p.serial_consistency
    [] flag = "WithDefaultTimestamp" -> p.timestamp

RECURSIVE Replay(_, _)
Replay(self, calls_made) ==
  IF calls_made = <<>> THEN self
  ELSE Replay(call(self, Head(calls_made)), Tail(calls_made))

\* what a caller can observe of a built QueryParams: its fields and its flags bitmask
Observed(p) ==
  [consistency |-> p.consistency, with_names |-> p.with_names, values |-> p.values,
   page_size |-> p.page_size, paging_state |-> p.paging_state,
   serial_consistency |-> p.serial_consistency, timestamp |-> p.timestamp,
   bitmask |-> flags_as_byte(p)]

\* C4: after any sequence of builder calls followed by finalize, the flags of the
\* QueryParams hold a governed bit exactly when the field it governs is Some.
C4_FlagsMatchFields ==
  is_some(built) =>
    \A flag \in Governed :
      has_flag(flags_as_byte(unwrap(built)), flag)
        <=> is_some(governed_field(unwrap(built), flag))

\* C9: the last two builder calls, when on different setters, can be made in the
\* other order without changing the fields or the flags bitmask finalize yields.
C9_OrderIndependent ==
  (is_some(built) /\ Len(ops) >= 2 /\ ops[Len(ops) - 1][1] /= ops[Len(ops)][1]) =>
    LET before == Replay(new, SubSeq(ops, 1, Len(ops) - 2))
        swapped == call(call(before, ops[Len(ops)]), ops[Len(ops) - 1])
    IN Observed(finalize(swapped)) = Observed(unwrap(built))

----------------------------------------------------------------------------
(* Claims about the codec *)

\* the fields of a QueryParams a round trip has to preserve
Fieldwise(p) ==
  [consistency |-> p.consistency, values |-> p.values, page_size |-> p.page_size,
   paging_state |-> p.paging_state, serial_consistency |-> p.serial_consistency,
   timestamp |-> p.timestamp]

\* C1: from_cursor on the bytes of p.into_cbytes(), p valid, succeeds and yields
\* the consistency, optional fields and value list of p.
C1_RoundTrip ==
  (is_some(params) /\ Valid(unwrap(params)) /\ dpc = "done") =>
    /\ unwrap(decoded).ok
    /\ Fieldwise(unwrap(unwrap(decoded).params)) = Fieldwise(unwrap(params))

\* the bytes of the section a populated governed field takes on the wire
section_len(p, flag, order) ==
  CASE flag = "Value" ->
         Len(count_into_cbytes(values_len(unwrap(p.values))))
         + Len(values_into_cbytes(unwrap(p.values), order))
    [] flag = "PageSize" -> 4
    [] flag = "WithPagingState" -> Len(cbytes_into_cbytes(unwrap(p.paging_state)))
    [] flag = "WithSerialConsistency" -> 2
    [] flag = "WithDefaultTimestamp" -> 8

RECURSIVE SumOver(_, _, _, _)
SumOver(p, flagset, byte, order) ==
  IF flagset = {} THEN 0
  ELSE LET flag == CHOOSE f \in flagset : TRUE
       IN (IF has_flag(byte, flag) THEN section_len(p, flag, order) ELSE 0)
          + SumOver(p, flagset \ {flag}, byte, order)

\* C5: whatever the stored flags list, the flags byte into_cbytes writes is the OR
\* of the bits of the populated optional fields, and the bytes hold a field's
\* section exactly when its bit is set in that byte.
C5_FlagsByteRecomputed ==
  (is_some(params) /\ dpc /= "new") =>
    LET p == unwrap(params)
        names == IF is_some(p.values) THEN DOMAIN unwrap(p.values).map ELSE {}
    IN /\ \A flag \in Governed : has_flag(wire[3], flag) <=> is_some(governed_field(p, flag))
       /\ Len(wire) = 3 + SumOver(p, Governed, wire[3], CHOOSE o \in Orders(names) : TRUE)

\* C10: with the Value flag set and a count field declaring N values, from_cursor
\* yields a positional list of N elements, and the count field it reads is the
\* count field into_cbytes writes.
C10_ReadsDeclaredCount ==
  /\ (dpc = "done" /\ unwrap(decoded).ok /\ has_flag(acc.flags_byte, "Value")
      /\ ~has_flag(acc.flags_byte, "WithNamesForValues")) =>
       Len(unwrap(unwrap(unwrap(decoded).params).values).vec) = acc.number_of_values
  /\ (is_some(params) /\ dpc \in {"values", "rest"} /\ has_flag(acc.flags_byte, "Value")
      /\ is_some(unwrap(params).values)) =>
       /\ acc.number_of_values = values_len(unwrap(unwrap(params).values))
       /\ cur = 3 + Len(count_into_cbytes(acc.number_of_values))

\* C7: a value read with length field L is Normal with the next L bytes when L > 0,
\* Null when L = -1, NotSet when L = -2, and otherwise the decode fails with
\* "Could not decode query values" and returns no QueryParams.
C7_ValueLengths ==
  is_some(last) =>
    LET l == unwrap(last)
        stored == IF l.named THEN acc.map[l.name] ELSE acc.vec[Len(acc.vec)]
    IN /\ (l.size > 0 /\ l.at + l.size <= Len(wire)) =>
            /\ l.read.ok
            /\ stored = [value_type |-> "Normal", len |-> l.size,
                         body |-> SubSeq(wire, l.at + 1, l.at + l.size)]
       /\ l.size = -1 => l.read.ok /\ stored.value_type = "Null"
       /\ l.size = -2 => l.read.ok /\ stored.value_type = "NotSet"
       /\ (l.size = 0 \/ l.size <= -3) =>
            /\ dpc = "done"
            /\ decoded = Some([ok |-> FALSE, params |-> None,
                               error |-> "Could not decode query values"])

C7_Witness ==
  /\ is_some(last)
  /\ unwrap(last).size <= -3
  /\ Len(acc.vec) = 1
  /\ acc.vec[1].value_type = "Normal"
  /\ decoded = Some(Err("Could not decode query values"))

----------------------------------------------------------------------------
(* Claims about the frame decoder *)

\* C2: a call of parse_frame_async that returns Ok(None) leaves the cursor's read
\* position where it was before the call.
C2_ShortReadLeavesSource ==
  (is_some(lastcall) /\ unwrap(lastcall).result.kind = "None") =>
    position = unwrap(lastcall).before

\* a complete valid frame: one call on all its bytes yields a Frame
ValidFrame == parse_frame_async(frame, 0).result.kind = "Frame"

\* C3: with the bytes of a valid frame arriving one at a time and one call after
\* each, every call before the last byte returns Ok(None) and the call after the
\* last byte returns the Frame a single call on the whole frame returns.
C3_BytewiseSameFrame ==
  (ValidFrame /\ bytewise /\ is_some(lastcall)) =>
    IF Len(source) < Len(frame)
    THEN unwrap(lastcall).result = OkNone
    ELSE unwrap(lastcall).result = parse_frame_async(frame, 0).result

\* C6 as stated: the frame decoder never returns a successful Frame whose opcode
\* is Error.
C6_DecoderNeverReturnsErrorFrame ==
  (is_some(lastcall) /\ unwrap(lastcall).result.kind = "Frame") =>
    unwrap(unwrap(lastcall).result.frame).opcode /= OpcodeError

\* C6 as amended: convert_frame_into_result, applied to the frame parse_frame_async
\* returned, never returns a successful Frame whose opcode is Error; an Error frame
\* whose body decodes as a server error becomes the server-error failure carrying
\* that payload, and a frame of any other opcode is returned as it is.
C6_ClassifierNeverReturnsErrorFrame ==
  is_some(final) =>
    LET f == unwrap(unwrap(lastcall).result.frame)
        r == unwrap(final)
    IN /\ r.ok => unwrap(r.frame).opcode /= OpcodeError
       /\ (f.opcode = OpcodeError /\ error_from_cursor(f.body).ok) =>
            /\ ~r.ok
            /\ r.server = Some([error_code |-> Signed(SubSeq(f.body, 1, 4)),
                                message |-> SubSeq(f.body, 7,
                                              6 + Unsigned(SubSeq(f.body, 5, 6)))])
       /\ f.opcode /= OpcodeError => (r.ok /\ r.frame = Some(f))

C6_Witness ==
  /\ is_some(final)
  /\ is_some(unwrap(final).server)
  /\ unwrap(lastcall).before = 0
  /\ unwrap(unwrap(lastcall).result.frame).opcode = OpcodeError

\* CStringList::into_cbytes: the layout of a list of strings
cstringlist_into_cbytes(list) ==
  to_short(Len(list)) \o Concat([i \in 1..Len(list) |-> cstring_into_cbytes(list[i])])

\* C8: a decoded frame has no tracing id when the Tracing flag is unset and no
\* warnings when the Warning flag is unset, and the full body is exactly the
\* sections its flags enable followed by the frame's body.
C8_Gating ==
  (is_some(lastcall) /\ unwrap(lastcall).result.kind = "Frame") =>
    LET f == unwrap(unwrap(lastcall).result.frame)
        raw == SubSeq(source, unwrap(lastcall).before + 10, position)
        full == IF "Compression" \in f.flags THEN decode(raw).value ELSE raw
    IN /\ "Tracing" \notin f.flags => f.tracing_id = None
       /\ "Warning" \notin f.flags => f.warnings = <<>>
       /\ full = (IF "Tracing" \in f.flags THEN SubSeq(full, 1, UUID_LEN) ELSE <<>>)
                 \o (IF "Warning" \in f.flags THEN cstringlist_into_cbytes(f.warnings)
                     ELSE <<>>)
                 \o f.body
       /\ ("Tracing" \notin f.flags /\ "Warning" \notin f.flags) => f.body = full

C8_Witness ==
  /\ is_some(lastcall)
  /\ unwrap(lastcall).result.kind = "Frame"
  /\ unwrap(lastcall).before = 0
  /\ unwrap(unwrap(lastcall).result.frame).flags = {}
  /\ Len(unwrap(unwrap(lastcall).result.frame).body) > UUID_LEN
  /\ SubSeq(unwrap(unwrap(lastcall).result.frame).body, 1, UUID_LEN) = Uuid

====
